---- MODULE Spec2Model ----
(***************************************************************************)
(* Model of the auto-device-status plugin (src/__init__.py).               *)
(*                                                                         *)
(* The plugin keeps a timeout (minutes) in a JSON config file, caches it   *)
(* at construction, and runs a background asyncio task that every 60       *)
(* seconds marks the devices that are "using" and idle for longer than the *)
(* timeout as offline, broadcasts the change and fires a batch hook.       *)
(*                                                                         *)
(* One step of the model is one piece of code that asyncio runs without    *)
(* suspension: from one await to the next.  The host (device activity,     *)
(* lifecycle calls, CLI commands, the clock) acts between those steps.     *)
(***************************************************************************)
EXTENDS Integers, Sequences, FiniteSets, TLC

VARIABLES
    devices,          \* persistence layer: id -> committed DeviceData row
    clock,            \* time.time(), in seconds
    file,             \* the config file: whether it exists and opens, and its text
    timeout_minutes,  \* Plugin.timeout_minutes, cached by __init__
    task,             \* Plugin.task: 0 for None, else the id of the task on_load created last
    tasks,            \* the asyncio tasks running _check_loop: id -> position and locals
    lastSaved,        \* history: <<m>> after set-timeout m saved m last, else <<>>
    printed           \* history: <<n>> for what the last get-timeout printed, else <<>>

vars == <<devices, clock, file, timeout_minutes, task, tasks, lastSaved, printed>>

-----------------------------------------------------------------------------
(* Bounds of the model *)

NumDevs == 2
MaxTasks == 2
MaxElapse == 2

(* Program constants *)

DEFAULT_TIMEOUT_MINUTES == 10
SleepSeconds == 60
SecondsPerMinute == 60

OfflineAuto == "Offline (Auto)"
InUse == "In Use"
Idle == "Idle"

Dev == 1..NumDevs
TaskId == 1..MaxTasks

-----------------------------------------------------------------------------
(* The config file: json.dump / json.load on a token sequence.             *)
(* The text of the file is modelled after lexing: punctuation and string   *)
(* literals are one token each, a number is its sign and decimal digits.   *)

Missing == [state |-> "missing", text |-> <<>>]           \* os.path.exists is False
Unreadable == [state |-> "unreadable", text |-> <<>>]     \* the file exists, open() raises
FileOf(txt) == [state |-> "present", text |-> txt]

KeyTimeout == "\"timeout\""
KeyInterval == "\"interval\""
StringTokens == {KeyTimeout, KeyInterval}

DigitChars == <<"0", "1", "2", "3", "4", "5", "6", "7", "8", "9">>
DigitSet == {DigitChars[i] : i \in 1..10}
DigitValue(c) == (CHOOSE i \in 1..10 : DigitChars[i] = c) - 1

RECURSIVE Digits(_)
Digits(n) ==
    IF n < 10 THEN <<DigitChars[n + 1]>>
    ELSE Digits(n \div 10) \o <<DigitChars[(n % 10) + 1]>>

\* json's encoding of a Python int
JsonDumpInt(n) == IF n < 0 THEN <<"-">> \o Digits(0 - n) ELSE Digits(n)

\* json.dump({'timeout': minutes}, f)
JsonDumpConfig(minutes) == <<"{", KeyTimeout, ":">> \o JsonDumpInt(minutes) \o <<"}">>

\* The end (exclusive) of the run of digits of txt that starts at p
RECURSIVE DigitsEnd(_, _)
DigitsEnd(txt, p) ==
    IF p <= Len(txt) /\ txt[p] \in DigitSet THEN DigitsEnd(txt, p + 1) ELSE p

RECURSIVE DigitsValue(_, _, _)
DigitsValue(txt, p, q) ==
    IF q <= p THEN 0
    ELSE DigitsValue(txt, p, q - 1) * 10 + DigitValue(txt[q - 1])

\* json's number scanner, integers only: -? ( 0 | [1-9][0-9]* )
JsonScanInt(txt, p) ==
    LET neg == p <= Len(txt) /\ txt[p] = "-"
        s == IF neg THEN p + 1 ELSE p
        e == DigitsEnd(txt, s)
        good == /\ e > s
                /\ (txt[s] = "0" => e = s + 1)
        mag == DigitsValue(txt, s, e)
    IN  IF good THEN [ok |-> TRUE, v |-> IF neg THEN 0 - mag ELSE mag, next |-> e]
        ELSE [ok |-> FALSE, v |-> 0, next |-> p]

\* The members of an object whose values are integers, from position p (after
\* "{" or ","); a repeated key keeps its last value, as json.load does.
RECURSIVE JsonScanMembers(_, _, _)
JsonScanMembers(txt, p, acc) ==
    IF p + 2 > Len(txt) \/ txt[p] \notin StringTokens \/ txt[p + 1] # ":"
    THEN [ok |-> FALSE, members |-> acc, next |-> p]
    ELSE LET n == JsonScanInt(txt, p + 2)
             acc2 == [k \in (DOMAIN acc) \cup {txt[p]} |->
                        IF k = txt[p] THEN n.v ELSE acc[k]]
         IN  IF ~n.ok \/ n.next > Len(txt) THEN [ok |-> FALSE, members |-> acc, next |-> p]
             ELSE IF txt[n.next] = "}" THEN [ok |-> TRUE, members |-> acc2, next |-> n.next + 1]
             ELSE IF txt[n.next] = "," THEN JsonScanMembers(txt, n.next + 1, acc2)
             ELSE [ok |-> FALSE, members |-> acc, next |-> p]

EmptyMembers == [k \in {} |-> 0]

\* json.load of the documents this model writes or starts from: an object with
\* integer members, an empty list, or a bare integer.  ok = FALSE is a
\* JSONDecodeError.
JsonLoad(txt) ==
    IF Len(txt) = 0 THEN [ok |-> FALSE, type |-> "none", members |-> EmptyMembers]
    ELSE IF txt[1] = "{" THEN
        IF Len(txt) = 2 /\ txt[2] = "}"
        THEN [ok |-> TRUE, type |-> "object", members |-> EmptyMembers]
        ELSE LET m == JsonScanMembers(txt, 2, EmptyMembers)
             IN  [ok |-> m.ok /\ m.next = Len(txt) + 1, type |-> "object",
                  members |-> m.members]
    ELSE IF txt[1] = "["
    THEN [ok |-> Len(txt) = 2 /\ txt[2] = "]", type |-> "list", members |-> EmptyMembers]
    ELSE LET n == JsonScanInt(txt, 1)
         IN  [ok |-> n.ok /\ n.next = Len(txt) + 1, type |-> "int", members |-> EmptyMembers]

\* What the body of the try in _load_config raises (lines 53-55): open() on a
\* file that cannot be read, json.load on a malformed document, data.get on a
\* document that is not an object; "none" when the body returns
TryRaises(f) ==
    IF f.state = "unreadable" THEN "OSError"
    ELSE LET data == JsonLoad(f.text)
         IN  IF ~data.ok THEN "JSONDecodeError"
             ELSE IF data.type # "object" THEN "AttributeError"
             ELSE "none"

\* Mutant: only the decoder's error is handled
Handles_DecodeError(exc) == exc = "JSONDecodeError"

\* except: (line 56), a bare handler
Handles(exc) == TRUE

\* The exception that leaves _load_config, "none" when it returns
LoadEscapes(f) ==
    IF f.state = "missing" THEN "none"
    ELSE IF Handles(TryRaises(f)) THEN "none"
    ELSE TryRaises(f)

\* Plugin._load_config
_load_config(f) ==
    IF f.state = "missing" THEN DEFAULT_TIMEOUT_MINUTES
    ELSE IF f.state = "unreadable" THEN DEFAULT_TIMEOUT_MINUTES
    ELSE LET data == JsonLoad(f.text)
         IN  IF ~data.ok THEN DEFAULT_TIMEOUT_MINUTES
             ELSE IF data.type # "object" THEN DEFAULT_TIMEOUT_MINUTES
             ELSE IF KeyTimeout \in DOMAIN data.members THEN data.members[KeyTimeout]
             ELSE DEFAULT_TIMEOUT_MINUTES

\* Mutant: the file is opened for appending
_save_config_Append(f, minutes) == FileOf(f.text \o JsonDumpConfig(minutes))

\* Plugin._save_config: open(path, 'w') truncates, json.dump writes the document
_save_config(f, minutes) == FileOf(JsonDumpConfig(minutes))

-----------------------------------------------------------------------------
(* The timeout scanner: Plugin._perform_check                              *)

\* select(DeviceData).where(DeviceData.using == True): the rows the session
\* loads, in id order; the loaded objects keep the values read here.
RECURSIVE QueryFrom(_, _)
QueryFrom(rows, d) ==
    IF d > NumDevs THEN <<>>
    ELSE (IF rows[d].using = TRUE THEN <<rows[d]>> ELSE <<>>) \o QueryFrom(rows, d + 1)

\* Mutant: the where clause is lost, every row is loaded
Query_All(rows) == [d \in 1..NumDevs |-> rows[d]]

Query(rows) == QueryFrom(rows, 1)

\* timeout_seconds = self.timeout_minutes * 60
TimeoutSeconds(minutes) == minutes * SecondsPerMinute

\* Mutant: the boundary counts as timed out
TimedOut_Inclusive(dev, now, timeout_seconds) == now - dev.last_updated >= timeout_seconds

\* if now - dev.last_updated > timeout_seconds
TimedOut(dev, now, timeout_seconds) == now - dev.last_updated > timeout_seconds

\* Mutant: the status is not set
MarkOffline_StatusKept(dev) == [dev EXCEPT !.using = FALSE]

\* dev.using = False; dev.status = "Offline (Auto)"
MarkOffline(dev) == [dev EXCEPT !.using = FALSE, !.status = OfflineAuto]

\* The index of the first device after position i that the for loop finds
\* timed out, or 0 when the loop runs to its end.
NextTimedOut(devs, i, now, timeout_seconds) ==
    LET later == {j \in (i + 1)..Len(devs) : TimedOut(devs[j], now, timeout_seconds)}
    IN  IF later = {} THEN 0 ELSE CHOOSE j \in later : \A k \in later : j <= k

\* Mutant: the first staged object is written and the others are lost
Commit_FirstOnly(rows, staged) ==
    [d \in Dev |-> IF staged # <<>> /\ staged[1] = d THEN MarkOffline(rows[d]) ELSE rows[d]]

\* sess.commit(): the UPDATE of the columns set on the staged objects
Commit(rows, staged) ==
    [d \in Dev |-> IF \E k \in 1..Len(staged) : staged[k] = d
                   THEN MarkOffline(rows[d]) ELSE rows[d]]

\* The payload of manager.evt_broadcast('device_updated', ...)
BroadcastEvent(dev) ==
    [event |-> "device_updated", id |-> dev.id,
     updated_fields |-> [using |-> FALSE, status |-> OfflineAuto]]

\* The arguments of plugin_manager.trigger_hook('device_activity', ...)
HookCall(ids) == [hook |-> "device_activity", device_ids |-> ids, source |-> "auto_timeout"]

\* Mutant: one hook call per device
TriggerHook_PerDevice(hooks, ids) == hooks \o [k \in 1..Len(ids) |-> HookCall(<<ids[k]>>)]

\* if timed_out_devices: await plugin_manager.trigger_hook(...): the hook calls
\* of the check, after this one
TriggerHook(hooks, ids) == Append(hooks, HookCall(ids))

-----------------------------------------------------------------------------
(* The background task: Plugin._check_loop                                 *)

\* A task that does not exist yet.  pc is the await the coroutine is suspended
\* at; now, devs, i, modified and timed_out_devices are the locals of the
\* running _perform_check; timeout_seconds, events, hooks, commits and outcome
\* record what the running (or last) check used and has done so far.
NoTask ==
    [pc |-> "none", must_cancel |-> FALSE, wake_at |-> 0,
     timeout_seconds |-> 0, now |-> 0, devs |-> <<>>, i |-> 0,
     modified |-> FALSE, timed_out_devices |-> <<>>,
     events |-> <<>>, hooks |-> <<>>, commits |-> 0, outcome |-> "none"]

InCheck == {"bcast1", "bcast2", "hook"}
Suspended == {"new", "sleep"} \cup InCheck
Stopped == {"done", "cancelled"}

\* _perform_check is left, by return or by exception: its locals are gone
Return(r) ==
    [r EXCEPT !.now = 0, !.devs = <<>>, !.i = 0, !.modified = FALSE,
              !.timed_out_devices = <<>>]

\* Mutant: the handler of Exception leaves the loop
Sleep_BreakOnError(r, outcome) ==
    IF outcome = "error"
    THEN [Return(r) EXCEPT !.pc = "done", !.outcome = outcome]
    ELSE [Return(r) EXCEPT !.pc = "sleep", !.wake_at = clock + SleepSeconds,
                           !.outcome = outcome]

\* await asyncio.sleep(60), entered after a check that returned or was logged
Sleep(r, outcome) ==
    [Return(r) EXCEPT !.pc = "sleep", !.wake_at = clock + SleepSeconds, !.outcome = outcome]

\* The for loop from the device after r.i to its next await, or through the
\* commit to the await of the hook, or to the end of the check.
Continue(t, r) ==
    LET j == NextTimedOut(r.devs, r.i, r.now, r.timeout_seconds) IN
    IF j # 0 THEN
        /\ tasks' = [tasks EXCEPT ![t] =
              [r EXCEPT !.i = j, !.modified = TRUE,
                        !.timed_out_devices = Append(@, r.devs[j].id),
                        !.events = Append(@, BroadcastEvent(r.devs[j])),
                        !.pc = "bcast1"]]
        /\ UNCHANGED devices
    ELSE IF r.modified THEN
        \/ \* sess.commit() returns; if timed_out_devices: the hook is called
           /\ devices' = Commit(devices, r.timed_out_devices)
           /\ tasks' = [tasks EXCEPT ![t] =
                 LET c == [r EXCEPT !.i = Len(r.devs), !.commits = @ + 1] IN
                 IF r.timed_out_devices # <<>>
                 THEN [c EXCEPT !.hooks = TriggerHook(@, r.timed_out_devices),
                                !.pc = "hook"]
                 ELSE Sleep(c, "ok")]
        \/ \* sess.commit() raises: the session rolls back, the loop logs the error
           /\ tasks' = [tasks EXCEPT ![t] = Sleep([r EXCEPT !.i = Len(r.devs)], "error")]
           /\ UNCHANGED devices
    ELSE
        /\ tasks' = [tasks EXCEPT ![t] = Sleep([r EXCEPT !.i = Len(r.devs)], "ok")]
        /\ UNCHANGED devices

\* The start of _perform_check: lines 85-92
BeginCheck(r) ==
    [r EXCEPT !.timeout_seconds = TimeoutSeconds(timeout_minutes), !.now = clock,
              !.devs = Query(devices), !.i = 0, !.modified = FALSE,
              !.timed_out_devices = <<>>, !.events = <<>>, !.hooks = <<>>,
              !.commits = 0, !.outcome = "running", !.wake_at = 0]

\* A tick: the check from its start to its first await
Tick(t) ==
    \/ Continue(t, BeginCheck(tasks[t]))
    \/ \* the query raises (persistence layer unavailable)
       /\ tasks' = [tasks EXCEPT ![t] =
             Sleep([BeginCheck(tasks[t]) EXCEPT !.devs = <<>>], "error")]
       /\ UNCHANGED devices

Frame == UNCHANGED <<clock, file, timeout_minutes, task, lastSaved, printed>>

\* The event loop runs the new task for the first time
Start(t) ==
    /\ tasks[t].pc = "new"
    /\ ~tasks[t].must_cancel
    /\ Tick(t)
    /\ Frame

\* asyncio.sleep(60) returns and the while loop starts the next tick
Wake(t) ==
    /\ tasks[t].pc = "sleep"
    /\ ~tasks[t].must_cancel
    /\ clock >= tasks[t].wake_at
    /\ Tick(t)
    /\ Frame

\* The first evt_broadcast returns: the second one is called (lines 103-111)
FirstBroadcastDone(t) ==
    /\ tasks[t].pc = "bcast1"
    /\ ~tasks[t].must_cancel
    /\ tasks' = [tasks EXCEPT ![t].pc = "bcast2",
                              ![t].events = Append(@, BroadcastEvent(tasks[t].devs[tasks[t].i]))]
    /\ UNCHANGED devices
    /\ Frame

\* The second evt_broadcast returns: the for loop goes on
SecondBroadcastDone(t) ==
    /\ tasks[t].pc = "bcast2"
    /\ ~tasks[t].must_cancel
    /\ Continue(t, tasks[t])
    /\ Frame

\* evt_broadcast raises: the with block closes the session without a commit,
\* _check_loop logs the error and sleeps (lines 78-82)
BroadcastFails(t) ==
    /\ tasks[t].pc \in {"bcast1", "bcast2"}
    /\ ~tasks[t].must_cancel
    /\ tasks' = [tasks EXCEPT ![t] = Sleep(tasks[t], "error")]
    /\ UNCHANGED devices
    /\ Frame

\* trigger_hook returns: the check returns
HookDone(t) ==
    /\ tasks[t].pc = "hook"
    /\ ~tasks[t].must_cancel
    /\ tasks' = [tasks EXCEPT ![t] = Sleep(tasks[t], "ok")]
    /\ UNCHANGED devices
    /\ Frame

\* trigger_hook raises, after the commit
HookFails(t) ==
    /\ tasks[t].pc = "hook"
    /\ ~tasks[t].must_cancel
    /\ tasks' = [tasks EXCEPT ![t] = Sleep(tasks[t], "error")]
    /\ UNCHANGED devices
    /\ Frame

\* Mutant: inside the check CancelledError is handled as any exception, logged
\* and followed by the sleep
AfterCancel_Logged(r) ==
    IF r.pc \in InCheck
    THEN [Return(r) EXCEPT !.pc = "sleep", !.wake_at = clock + SleepSeconds,
                           !.must_cancel = FALSE, !.outcome = "error"]
    ELSE [r EXCEPT !.pc = "cancelled", !.must_cancel = FALSE]

\* Where CancelledError, thrown into the coroutine at its await, leaves the
\* task: inside _perform_check it is caught and the loop breaks (lines 76-77);
\* at asyncio.sleep (line 82) or before the first step nothing catches it and
\* the task ends cancelled.
AfterCancel(r) ==
    IF r.pc \in InCheck
    THEN [Return(r) EXCEPT !.pc = "done", !.must_cancel = FALSE, !.outcome = "cancelled"]
    ELSE [r EXCEPT !.pc = "cancelled", !.must_cancel = FALSE]

\* The event loop resumes a task whose cancellation was requested
DeliverCancel(t) ==
    /\ tasks[t].pc \in Suspended
    /\ tasks[t].must_cancel
    /\ tasks' = [tasks EXCEPT ![t] = AfterCancel(tasks[t])]
    /\ UNCHANGED devices
    /\ Frame

-----------------------------------------------------------------------------
(* Lifecycle, command interface and environment                            *)

\* The slot of the next task asyncio.create_task makes, or 0 when the model's
\* bound on tasks is reached
FreeSlot ==
    LET free == {t \in TaskId : tasks[t].pc = "none"}
    IN  IF free = {} THEN 0 ELSE CHOOSE t \in free : \A u \in free : t <= u

\* Plugin.on_load: self.task = asyncio.create_task(self._check_loop())
on_load ==
    /\ FreeSlot # 0
    /\ tasks' = [tasks EXCEPT ![FreeSlot] = [NoTask EXCEPT !.pc = "new"]]
    /\ task' = FreeSlot
    /\ UNCHANGED <<devices, clock, file, timeout_minutes, lastSaved, printed>>

\* Task.cancel(): a request; a task that has finished is left alone
Cancel(r) == IF r.pc \in Suspended THEN [r EXCEPT !.must_cancel = TRUE] ELSE r

\* Plugin.on_unload: if self.task: self.task.cancel()
on_unload ==
    /\ tasks' = IF task # 0 THEN [tasks EXCEPT ![task] = Cancel(tasks[task])] ELSE tasks
    /\ UNCHANGED <<devices, clock, file, timeout_minutes, task, lastSaved, printed>>

\* Plugin.handle_set_timeout: only the file is written
handle_set_timeout(minutes) ==
    /\ file' = _save_config(file, minutes)
    /\ lastSaved' = <<minutes>>
    /\ UNCHANGED <<devices, clock, timeout_minutes, task, tasks, printed>>

\* Mutant: get-timeout prints the cached value
handle_get_timeout_Cached ==
    /\ printed' = <<timeout_minutes>>
    /\ UNCHANGED <<devices, clock, file, timeout_minutes, task, tasks, lastSaved>>

\* Plugin.handle_get_timeout: prints a fresh read of the file
handle_get_timeout ==
    /\ printed' = <<_load_config(file)>>
    /\ UNCHANGED <<devices, clock, file, timeout_minutes, task, tasks, lastSaved>>

\* Plugin.__init__ of a new instance, once every task of the old one has stopped
\* (a server restart)
Restart ==
    /\ \A t \in TaskId : tasks[t].pc \in Stopped \cup {"none"}
    /\ tasks' = [t \in TaskId |-> NoTask]
    /\ task' = 0
    /\ timeout_minutes' = _load_config(file)
    /\ UNCHANGED <<devices, clock, file, lastSaved, printed>>

\* The host records activity on a device (a reservation or a heartbeat)
HostActivity(d) ==
    /\ devices' = [devices EXCEPT ![d] =
          [@ EXCEPT !.using = TRUE, !.status = InUse, !.last_updated = clock]]
    /\ UNCHANGED <<clock, file, timeout_minutes, task, tasks, lastSaved, printed>>

\* Time passes, in units of the loop's sleep
InitClock == NumDevs - 1
MaxClock == InitClock + MaxElapse * SleepSeconds

Elapse ==
    /\ clock + SleepSeconds <= MaxClock
    /\ clock' = clock + SleepSeconds
    /\ UNCHANGED <<devices, file, timeout_minutes, task, tasks, lastSaved, printed>>

-----------------------------------------------------------------------------
(* The running plugin *)

\* Device d was last updated d - 1 seconds after the epoch: after one sleep the
\* idle times straddle a timeout of one minute.
InitDevices ==
    {[d \in Dev |-> [id |-> d, name |-> <<"device", d>>, using |-> u[d],
                     status |-> IF u[d] THEN InUse ELSE Idle, last_updated |-> d - 1]]
       : u \in [Dev -> BOOLEAN]}

InitFiles == {Missing, FileOf(JsonDumpConfig(1)), FileOf(JsonDumpConfig(2))}
SetMinutes == {0, 2}

Init ==
    /\ devices \in InitDevices
    /\ clock = InitClock
    /\ file \in InitFiles
    /\ timeout_minutes = _load_config(file)
    /\ task = 0
    /\ tasks = [t \in TaskId |-> NoTask]
    /\ lastSaved = <<>>
    /\ printed = <<>>

\* The host loads a plugin instance once
Load == task = 0 /\ on_load

\* The operator sets the timeout while the loop is running
Running == task # 0 /\ tasks[task].pc \in Suspended
SetWhileRunning(m) == Running /\ handle_set_timeout(m)

Next ==
    \/ Load
    \/ on_unload
    \/ \E t \in TaskId : Start(t)
    \/ \E t \in TaskId : Wake(t)
    \/ \E t \in TaskId : FirstBroadcastDone(t)
    \/ \E t \in TaskId : SecondBroadcastDone(t)
    \/ \E t \in TaskId : BroadcastFails(t)
    \/ \E t \in TaskId : HookDone(t)
    \/ \E t \in TaskId : HookFails(t)
    \/ \E t \in TaskId : DeliverCancel(t)
    \/ \E m \in SetMinutes : SetWhileRunning(m)
    \/ Restart
    \/ \E d \in Dev : HostActivity(d)
    \/ Elapse

Spec == Init /\ [][Next]_vars

\* The loaded plugin with its config left alone, under a fair event loop: a
\* task whose cancellation was requested is resumed (Task.cancel schedules its
\* wakeup with call_soon).
LiveInit == Init /\ file # Missing

LiveNext ==
    \/ Load
    \/ on_unload
    \/ \E t \in TaskId : Start(t)
    \/ \E t \in TaskId : Wake(t)
    \/ \E t \in TaskId : FirstBroadcastDone(t)
    \/ \E t \in TaskId : SecondBroadcastDone(t)
    \/ \E t \in TaskId : BroadcastFails(t)
    \/ \E t \in TaskId : HookDone(t)
    \/ \E t \in TaskId : HookFails(t)
    \/ \E t \in TaskId : DeliverCancel(t)
    \/ \E d \in Dev : HostActivity(d)
    \/ Elapse

LiveSpec == LiveInit /\ [][LiveNext]_vars /\ \A t \in TaskId : WF_vars(DeliverCancel(t))

\* The event loop resumes task t where it waits: its first run, the end of its
\* sleep, or the return of the collaborator call it awaits
Resume(t) ==
    \/ Start(t)
    \/ Wake(t)
    \/ FirstBroadcastDone(t)
    \/ SecondBroadcastDone(t)
    \/ HookDone(t)

\* The loaded plugin under an event loop that runs every task that is ready,
\* with timers that fire, collaborators whose calls come back (by return or by
\* exception) and a clock that advances
FairSpec ==
    /\ LiveInit
    /\ [][LiveNext]_vars
    /\ WF_vars(Elapse)
    /\ \A t \in TaskId : WF_vars(Resume(t))

\* The host releases a device: its client reports that it is no longer in use
HostRelease(d) ==
    /\ devices' = [devices EXCEPT ![d] =
          [@ EXCEPT !.using = FALSE, !.status = Idle, !.last_updated = clock]]
    /\ UNCHANGED <<clock, file, timeout_minutes, task, tasks, lastSaved, printed>>

\* The loaded plugin next to a host that reserves and releases devices while
\* a check is suspended
RaceNext ==
    \/ LiveNext
    \/ \E d \in Dev : HostRelease(d)

RaceSpec == LiveInit /\ [][RaceNext]_vars

\* The lifecycle calls in any order, on_load any number of times: the loop
\* tasks with no device in use, so that every tick is over in one step
LifeInit == Init /\ \A d \in Dev : ~devices[d].using

LifeNext ==
    \/ on_load
    \/ on_unload
    \/ \E t \in TaskId : Start(t)
    \/ \E t \in TaskId : Wake(t)
    \/ \E t \in TaskId : DeliverCancel(t)
    \/ Elapse

LifeSpec == LifeInit /\ [][LifeNext]_vars

-----------------------------------------------------------------------------
(* The config store and the command interface on their own: every kind of  *)
(* config file, a wide range of minutes, no loop running.                   *)

MaxMinutes == 12
StoreMinutes == ((0 - MaxMinutes)..MaxMinutes) \cup {0 - 1440, 0 - 105, 100, 1440}

StoreFiles ==
    {Missing, Unreadable,
     FileOf(JsonDumpConfig(15)),
     FileOf(<<"{", "}">>),
     FileOf(<<"{", KeyInterval, ":", "5", "}">>),
     FileOf(<<"{", KeyInterval, ":", "5", ",", KeyTimeout, ":", "7", "}">>),
     FileOf(<<"{", KeyTimeout, ":", "3", ",", KeyTimeout, ":", "4", "}">>),
     FileOf(<<"[", "]">>),
     FileOf(<<"4", "2">>),
     FileOf(<<>>),
     FileOf(<<"{", KeyTimeout, ":">>),
     FileOf(<<"{", KeyTimeout, ":", "0", "7", "}">>),
     FileOf(<<"{", KeyTimeout, ":", "-", "}">>)}

StoreInit ==
    /\ devices \in InitDevices
    /\ \A d \in Dev : devices[d].using
    /\ clock = InitClock
    /\ file \in StoreFiles
    /\ timeout_minutes = _load_config(file)
    /\ task = 0
    /\ tasks = [t \in TaskId |-> NoTask]
    /\ lastSaved = <<>>
    /\ printed = <<>>

StoreNext ==
    \/ \E m \in StoreMinutes : handle_set_timeout(m)
    \/ handle_get_timeout
    \/ Restart

StoreSpec == StoreInit /\ [][StoreNext]_vars


-----------------------------------------------------------------------------------------------------------------------------------------------------
(* Properties of the scanner                                               *)

\* The devices that are in use and idle for more than the configured timeout
\* now: the devices a check that starts in this state is to reclaim
DueNow ==
    {d \in Dev :
        /\ devices[d].using
        /\ clock - devices[d].last_updated > timeout_minutes * 60}

\* The devices in use that are idle for at most the timeout
NotDueNow ==
    {d \in Dev :
        /\ devices[d].using
        /\ clock - devices[d].last_updated <= timeout_minutes * 60}

\* The same two sets for the running check of r, from the rows it loaded and
\* the time it read
Due(r) ==
    {r.devs[k].id : k \in {j \in DOMAIN r.devs :
        /\ r.devs[j].using
        /\ r.now - r.devs[j].last_updated > timeout_minutes * 60}}

NotDue(r) ==
    {r.devs[k].id : k \in {j \in DOMAIN r.devs :
        /\ r.devs[j].using
        /\ r.now - r.devs[j].last_updated <= timeout_minutes * 60}}

Ids(seq) == {seq[k] : k \in DOMAIN seq}
EventsFor(r, d) == Cardinality({k \in DOMAIN r.events : r.events[k].id = d})
HookLists(r, d) == \E h \in DOMAIN r.hooks : d \in Ids(r.hooks[h].device_ids)
IsOffline(row) == row.using = FALSE /\ row.status = OfflineAuto

\* Task t takes the step that starts a tick
TickStep(t) ==
    /\ tasks[t].pc \in {"new", "sleep"}
    /\ ~tasks[t].must_cancel
    /\ ~tasks'[t].must_cancel
    /\ tasks'[t].pc \notin {"none", "new"}
    /\ tasks'[t] # tasks[t]

\* Task t takes the step that commits its session
CommitStep(t) == tasks[t].pc \in InCheck /\ tasks'[t].commits = tasks[t].commits + 1

\* Task t takes the last step of a check that went through an await
LeaveStep(t) == tasks[t].pc \in InCheck /\ tasks'[t].pc \notin InCheck

\* A tick that goes on to an await works on the devices due at its start
SameDue(t) ==
    (TickStep(t) /\ tasks'[t].pc \in InCheck)
        => Due(tasks'[t]) = DueNow /\ NotDue(tasks'[t]) = NotDueNow

\* C1: for every timeout T > 0, a device that is in use and idle for more than
\* T*60 seconds when the check runs is persisted with using = false and status
\* "Offline (Auto)" by a check that completes without an exception: a check
\* that returns at once had no such device, a check that returns after its
\* awaits has committed, and the commit writes both fields of every such device.
C1_ReclaimsExpired ==
    [][\A t \in TaskId :
        timeout_minutes > 0 =>
            /\ SameDue(t)
            /\ (TickStep(t) /\ tasks'[t].outcome = "ok") => DueNow = {}
            /\ (LeaveStep(t) /\ tasks'[t].outcome = "ok") => tasks[t].commits = 1
            /\ CommitStep(t) => \A d \in Due(tasks[t]) : IsOffline(devices'[d])]_vars

\* A check of a timeout T > 0 has returned after reclaiming, and the devices it
\* listed are persisted offline
C1_Witness ==
    \E t \in TaskId :
        /\ timeout_minutes > 0
        /\ tasks[t].outcome = "ok"
        /\ tasks[t].pc = "sleep"
        /\ tasks[t].commits = 1
        /\ tasks[t].hooks # <<>>
        /\ \A d \in Ids(tasks[t].hooks[1].device_ids) : IsOffline(devices[d])

\* C2: in one check exactly one 'device_updated' event is broadcast for each
\* device reclaimed in it, and none for any other device.
C2_OneBroadcastPerReclaimed ==
    \A t \in TaskId : \A d \in Dev :
        tasks[t].pc \in InCheck =>
            EventsFor(tasks[t], d) = IF d \in Ids(tasks[t].timed_out_devices) THEN 1 ELSE 0

\* C3: a device in use whose idle time is at most timeout_minutes*60 at the
\* check is not reclaimed by it: it is not staged, no event is broadcast for
\* it, no hook call lists it, and the commit leaves its row as it is.
C3_FreshNotReclaimed ==
    /\ [](\A t \in TaskId : \A d \in NotDue(tasks[t]) :
            /\ d \notin Ids(tasks[t].timed_out_devices)
            /\ EventsFor(tasks[t], d) = 0
            /\ ~HookLists(tasks[t], d))
    /\ [][\A t \in TaskId :
            /\ SameDue(t)
            /\ TickStep(t)
                  => /\ devices' = devices
                     /\ \A d \in NotDueNow :
                           EventsFor(tasks'[t], d) = 0 /\ ~HookLists(tasks'[t], d)
            /\ CommitStep(t) => \A d \in NotDue(tasks[t]) : devices'[d] = devices[d]
            /\ LeaveStep(t)
                  => /\ tasks'[t].events = tasks[t].events
                     /\ tasks'[t].hooks = tasks[t].hooks]_vars

\* A check has committed and called the hook while a device in use sat exactly
\* on the boundary, and that device is still in use
C3_Witness ==
    \E t \in TaskId : \E k \in DOMAIN tasks[t].devs :
        /\ tasks[t].pc = "hook"
        /\ tasks[t].commits = 1
        /\ tasks[t].devs[k].id \in NotDue(tasks[t])
        /\ tasks[t].now - tasks[t].devs[k].last_updated = timeout_minutes * 60
        /\ devices[tasks[t].devs[k].id].using

\* C4: in every tick the 'device_activity' hook is called at most once; it is
\* called if and only if the tick committed reclamations, with source
\* 'auto_timeout' and with device_ids the devices the commit reclaimed, all of
\* them in the one call.
C4_HookBatched ==
    /\ [](\A t \in TaskId :
            /\ Len(tasks[t].hooks) <= 1
            /\ (Len(tasks[t].hooks) = 1 <=> tasks[t].commits = 1)
            /\ \A h \in DOMAIN tasks[t].hooks :
                  /\ tasks[t].hooks[h].hook = "device_activity"
                  /\ tasks[t].hooks[h].source = "auto_timeout")
    /\ [][\A t \in TaskId :
            /\ SameDue(t)
            /\ TickStep(t) => tasks'[t].hooks = <<>> /\ tasks'[t].commits = 0
            /\ CommitStep(t)
                  => /\ Len(tasks'[t].hooks) = 1
                     /\ Ids(tasks'[t].hooks[1].device_ids) = Due(tasks[t])
                     /\ Len(tasks'[t].hooks[1].device_ids) = Cardinality(Due(tasks[t]))
                     /\ \A d \in Dev :
                          IF d \in Ids(tasks'[t].hooks[1].device_ids)
                          THEN IsOffline(devices'[d]) /\ ~IsOffline(devices[d])
                          ELSE devices'[d] = devices[d]
            /\ (tasks[t].pc \in InCheck /\ ~CommitStep(t))
                  => tasks'[t].hooks = tasks[t].hooks]_vars

\* One hook call carries every device of the model
C4_Witness ==
    \E t \in TaskId :
        /\ Len(tasks[t].hooks) = 1
        /\ Ids(tasks[t].hooks[1].device_ids) = Dev
        /\ NumDevs > 1

\* C5: a check that finds no device to reclaim commits nothing, broadcasts
\* nothing, calls no hook and leaves every device as it is: it is over in the
\* step it starts in.
C5_NothingToReclaim ==
    [][\A t \in TaskId :
        (TickStep(t) /\ DueNow = {})
            => /\ devices' = devices
               /\ tasks'[t].commits = 0
               /\ tasks'[t].events = <<>>
               /\ tasks'[t].hooks = <<>>
               /\ tasks'[t].pc = "sleep"]_vars

\* A check has returned with no device in use, one of them idle for longer
\* than the timeout, and nothing was done
C5_Witness ==
    \E t \in TaskId :
        /\ tasks[t].outcome = "ok"
        /\ tasks[t].pc = "sleep"
        /\ tasks[t].commits = 0 /\ tasks[t].events = <<>> /\ tasks[t].hooks = <<>>
        /\ \A d \in Dev : ~devices[d].using /\ devices[d].status = Idle
        /\ \E d \in Dev : clock - devices[d].last_updated > timeout_minutes * 60

-----
(* Properties of the background loop                                       *)

\* Task t takes a step in which its check raises an exception
ExceptionStep(t) ==
    /\ tasks'[t].outcome = "error"
    /\ tasks[t].outcome = "running" \/ TickStep(t)

\* C6: an exception raised by a check never ends the loop: the task goes to
\* its 60-second sleep, still not cancelled; and a task only ever stops in a
\* step that delivers a cancellation that was requested.
C6_ExceptionKeepsLoop ==
    [][\A t \in TaskId :
        /\ ExceptionStep(t)
              => /\ tasks'[t].pc = "sleep"
                 /\ tasks'[t].wake_at = clock + 60
                 /\ ~tasks'[t].must_cancel
        /\ (tasks[t].pc \in Suspended /\ tasks'[t].pc \in Stopped)
              => tasks[t].must_cancel]_vars

\* The loop sleeps after a check that raised once the commit was done
C6_Witness ==
    \E t \in TaskId :
        /\ tasks[t].pc = "sleep"
        /\ tasks[t].outcome = "error"
        /\ tasks[t].commits = 1
        /\ ~tasks[t].must_cancel

\* C7: once on_unload has requested the cancellation of the running loop,
\* in its sleep or inside a check, the task starts no further tick: its only
\* step is the one that stops it, which logs no check error; and the task
\* does stop.
C7_CancelStopsLoop ==
    /\ [][\A t \in TaskId :
            tasks[t].must_cancel
                => \/ tasks'[t] = tasks[t]
                   \/ /\ tasks'[t].pc \in Stopped
                      /\ tasks'[t].outcome \in {tasks[t].outcome, "cancelled"}
                      /\ tasks'[t].events = tasks[t].events
                      /\ tasks'[t].hooks = tasks[t].hooks
                      /\ tasks'[t].commits = tasks[t].commits
                      /\ devices' = devices]_vars
    /\ \A t \in TaskId : tasks[t].must_cancel ~> tasks[t].pc \in Stopped

\* The loop was cancelled inside a check, between the two broadcasts of a device
C7_Witness ==
    \E t \in TaskId :
        /\ tasks[t].pc = "done"
        /\ tasks[t].outcome = "cancelled"
        /\ Len(tasks[t].events) = 1

\* C8: on_unload waits for the loop: in the state on_unload returns in, with
\* the cancellation requested, the loop task has stopped.
C8_UnloadWaits ==
    \A t \in TaskId : tasks[t].must_cancel => tasks[t].pc \in Stopped

\* C9: every tick that starts after set-timeout m, run while the loop was
\* Running, uses m as its timeout.
C9_SetTimeoutNextTick ==
    [][\A t \in TaskId :
        (TickStep(t) /\ lastSaved # <<>>)
            => tasks'[t].timeout_seconds = lastSaved[1] * 60]_vars

-----------------------------------------------------------------------------
(* Properties of the config store                                          *)

\* C10: after any sequence of _save_config calls, of any integers (zero and
\* negative ones too), _load_config returns the integer saved last.
C10_SaveLoadRoundTrip ==
    lastSaved # <<>> => _load_config(file) = lastSaved[1]

\* A negative value was saved and get-timeout read it back
C10_Witness ==
    /\ lastSaved # <<>>
    /\ lastSaved[1] < 0 - 100
    /\ printed = lastSaved
    /\ _load_config(file) = lastSaved[1]

\* The files of the claim: missing, unreadable, malformed, not an object, or
\* an object without the 'timeout' key
NoTimeoutIn(f) ==
    \/ f.state \in {"missing", "unreadable"}
    \/ ~JsonLoad(f.text).ok
    \/ JsonLoad(f.text).type # "object"
    \/ KeyTimeout \notin DOMAIN JsonLoad(f.text).members

\* C11: _load_config never raises; for a config file that is missing,
\* unreadable, malformed, not a JSON object or an object without the 'timeout'
\* key it returns 10, and so get-timeout prints 10; other keys of the object
\* are ignored.
C11_LoadNeverRaises ==
    /\ [](LoadEscapes(file) = "none")
    /\ [](NoTimeoutIn(file) => _load_config(file) = 10)
    /\ [](file = FileOf(<<"{", KeyInterval, ":", "5", "}">>) => _load_config(file) = 10)
    /\ [](file = FileOf(<<"{", KeyInterval, ":", "5", ",", KeyTimeout, ":", "7", "}">>)
             => _load_config(file) = 7)
    /\ [][(printed' # printed /\ NoTimeoutIn(file)) => printed' = <<10>>]_vars

\* get-timeout has printed the default for a file that holds valid JSON that
\* is not an object
C11_Witness ==
    /\ printed = <<10>>
    /\ file.state = "present"
    /\ JsonLoad(file.text).ok
    /\ JsonLoad(file.text).type = "list"

\* C12: get-timeout prints what a fresh read of the config file gives,
\* whatever the cached timeout_minutes is, and changes nothing else: the file,
\* the cached timeout, the loop's task and the devices are as before.
C12_GetTimeoutFreshNoEffect ==
    [][printed' # printed
          => /\ printed' = <<_load_config(file)>>
             /\ UNCHANGED <<file, timeout_minutes, task, tasks, devices, clock, lastSaved>>]_vars

\* get-timeout has printed the value saved last while the cached timeout is
\* another one
C12_Witness ==
    /\ printed # <<>>
    /\ printed = lastSaved
    /\ printed[1] # timeout_minutes
    /\ _load_config(file) = printed[1]

-----------------------------------------------------------------------------
(* Properties of the order and atomicity of a tick                         *)

\* Task t takes a step in which it calls evt_broadcast
BroadcastStep(t) ==
    /\ tasks'[t].events # <<>>
    /\ tasks'[t].events # tasks[t].events

\* C13: the commit of a tick comes before its broadcasts: when a
\* 'device_updated' event is emitted for device d, the persisted row of d has
\* using = false and status "Offline (Auto)".
C13_CommitBeforeBroadcast ==
    [][\A t \in TaskId :
        BroadcastStep(t)
            => IsOffline(devices'[tasks'[t].events[Len(tasks'[t].events)].id])]_vars

\* Task t takes a step of its own
TaskStep(t) == tasks'[t] # tasks[t] /\ tasks[t].pc \in Suspended

\* Task t takes a step that ends its check with nothing committed: an
\* exception or a cancellation before the commit
AbortStep(t) ==
    /\ tasks[t].pc \in InCheck \/ TickStep(t)
    /\ tasks'[t].outcome \in {"error", "cancelled"}
    /\ tasks'[t].commits = 0

\* C14: a tick changes the persisted devices in one step only, its commit,
\* and that step writes every device the tick staged and no other; a check
\* that an exception or a cancellation ends before the commit has changed no
\* device.
C14_AllOrNothing ==
    /\ [](\A t \in TaskId : tasks[t].commits <= 1)
    /\ [][\A t \in TaskId :
            /\ (TaskStep(t) /\ ~CommitStep(t)) => devices' = devices
            /\ AbortStep(t) => devices' = devices
            /\ CommitStep(t)
                  => /\ tasks[t].commits = 0
                     /\ tasks[t].timed_out_devices # <<>>
                     /\ \A d \in Dev :
                           IF d \in Ids(tasks[t].timed_out_devices)
                           THEN IsOffline(devices'[d])
                           ELSE devices'[d] = devices[d]]_vars

\* A check that had staged every device was ended by an exception before its
\* commit, and every device is still in use
C14_Witness ==
    \E t \in TaskId :
        /\ tasks[t].pc = "sleep"
        /\ tasks[t].outcome = "error"
        /\ tasks[t].commits = 0
        /\ {tasks[t].events[k].id : k \in DOMAIN tasks[t].events} = Dev
        /\ NumDevs > 1
        /\ \A d \in Dev : devices[d].using /\ devices[d].status = InUse

\* The host has not updated the row of d since the plugin was constructed (the
\* host stamps last_updated with the clock, which starts at InitClock)
Untouched(d) == devices[d].last_updated < InitClock

\* The last check of r was ended by an exception while the first broadcast of
\* device d was in flight
FailedInBroadcastOf(r, d) ==
    /\ r.pc = "sleep"
    /\ r.outcome = "error"
    /\ r.commits = 0
    /\ Len(r.events) % 2 = 1
    /\ r.events[Len(r.events)].id = d

\* C15: a broadcast is not retried: after a check in which the broadcast for
\* device d failed, the next tick does not emit the event for that
\* reclamation again (the host has not touched d in between).
C15_BroadcastNotRetried ==
    [][\A t \in TaskId : \A d \in Dev :
        (TickStep(t) /\ FailedInBroadcastOf(tasks[t], d) /\ Untouched(d))
            => EventsFor(tasks'[t], d) = 0]_vars

\* C17: the timeout is always a positive integer, in the file and in the
\* cache the ticks use.
C17_TimeoutPositive ==
    /\ _load_config(file) > 0
    /\ timeout_minutes > 0
    /\ \A t \in TaskId : tasks[t].pc \in InCheck => tasks[t].timeout_seconds > 0

\* C18: a commit reclaims no device on stale data: every device it writes
\* has, in its persisted row at that moment, a last_updated older than the
\* timeout of the tick.
C18_NoStaleReclaim ==
    [][\A t \in TaskId :
        CommitStep(t)
            => \A d \in Ids(tasks[t].timed_out_devices) :
                  clock - devices[d].last_updated > tasks[t].timeout_seconds]_vars

-----------------------------------------------------------------------------
(* Properties of the lifecycle and of the scanner's writes                 *)

\* The loop tasks that exist, have not finished and have no cancellation
\* pending
Live == {t \in TaskId : tasks[t].pc \in Suspended /\ ~tasks[t].must_cancel}

\* C19: under any sequence of on_load and on_unload calls at most one loop
\* task is running (a task whose cancellation is pending is not counted), and
\* every running task is the one Plugin.task refers to, so that the next
\* on_unload cancels it.
C19_OneLoopTask ==
    /\ Cardinality(Live) <= 1
    /\ \A t \in Live : task = t

\* C20: a step of a check never changes a device whose persisted using is
\* false, never sets using to true, never changes id, name or last_updated,
\* and whatever it changes ends with using = false and status
\* "Offline (Auto)".
C20_ScannerFrame ==
    [][\A t \in TaskId : \A d \in Dev :
        TaskStep(t)
            => /\ devices'[d].id = devices[d].id
               /\ devices'[d].name = devices[d].name
               /\ devices'[d].last_updated = devices[d].last_updated
               /\ devices'[d].using => devices[d].using
               /\ ~devices[d].using => devices'[d] = devices[d]
               /\ devices'[d] # devices[d] => IsOffline(devices'[d])]_vars

-----------------------------------------------------------------------------
(* Progress of the loop                                                     *)

\* The loop task the plugin holds (FairSpec loads the plugin once)
TheLoop == IF task = 0 THEN NoTask ELSE tasks[task]

\* The loop is Running and its next tick is due (it has not run yet, or its
\* sleep is over), with device d in use and idle for longer than the timeout
TickDueWith(d) ==
    /\ TheLoop.pc \in {"new", "sleep"}
    /\ ~TheLoop.must_cancel
    /\ clock >= TheLoop.wake_at
    /\ d \in DueNow

\* The last check of the loop failed and the loop is in the sleep that follows
FailedAgain == TheLoop.outcome = "error" /\ TheLoop.wake_at > clock

\* C16: while the loop is Running and not cancelled, a device that stays in
\* use and idle for longer than the timeout is reclaimed by a later tick,
\* whatever failed before, unless a collaborator fails again: the sleep of the
\* loop ends (as far as the model's clock goes), and from every state in which
\* a tick is due with d due, a state follows in which d is persisted offline,
\* or d is no longer due (the host updated it), or the loop was cancelled, or
\* the next check has failed.
C16_EventuallyReclaimed ==
    /\ (TheLoop.pc = "sleep" /\ TheLoop.wake_at <= MaxClock)
          ~> (clock >= TheLoop.wake_at \/ TheLoop.must_cancel)
    /\ \A d \in Dev :
          TickDueWith(d)
              ~> \/ IsOffline(devices[d])
                 \/ d \notin DueNow
                 \/ TheLoop.must_cancel
                 \/ FailedAgain

\* After a check that failed once devices were staged, the sleep is over and
\* the next tick is due with a device still due
C16_Witness ==
    \E d \in Dev :
        /\ TickDueWith(d)
        /\ TheLoop.outcome = "error"
        /\ EventsFor(TheLoop, d) > 0

====
